---- MODULE Spec2Model ----
(***************************************************************************)
(* A model of the Config store of src/config/config.py: an options tree    *)
(* held in a dotty_dict Dotty, a defaults dict, and the JSON file at the   *)
(* store's location.                                                       *)
(*                                                                         *)
(* Python values.  None is None; Sc(n) is a scalar; Map(m) is a dict whose *)
(* content is the function m from keys to values.  The root of a tree is   *)
(* the bare function.  A dotted string such as "a.b" is written as the     *)
(* sequence of its '.'-separated segments, <<"a", "b">>, which is what     *)
(* Dotty._split makes of it; a tuple argument is a sequence of such        *)
(* strings.                                                                *)
(*                                                                         *)
(* Modelled domain: keys and path segments are plain names (no digits, no  *)
(* ':' and no escape character, which Dotty reads as list indices, slices  *)
(* and escapes), defaults keys hold no '.', stored scalars are non-null    *)
(* and truthy, and the trees hold no arrays.                               *)
(*                                                                         *)
(* Python dicts are objects.  try_defaults stores in the options tree the  *)
(* very dict object that the defaults hold (line 194), so a later write    *)
(* through the options tree lands in the defaults as well.  The variable   *)
(* shared names the top-level keys whose value is one object in both.      *)
(***************************************************************************)
EXTENDS Integers, Sequences, FiniteSets, TLC

VARIABLES
  opt,       \* self._opt: the root dict of the options tree
  defaults,  \* self._defaults: the root dict of the defaults
  shared,    \* the top-level keys whose dict is one object in opt and defaults
  file,      \* the file at self._location: Absent, Invalid or Json(document)
  pending,   \* the dialogs shown whose callback has not been called
  passed,    \* the tree last passed to set_defaults, as it was passed
  last,      \* the last call: its name, arguments, exception and return value
  calls      \* the number of calls made so far

vars == <<opt, defaults, shared, file, pending, passed, last, calls>>

---------------------------------------------------------------------------
(* Bounds of the model: the length of a path, in segments, and the number  *)
(* of calls in a run.                                                      *)

MaxPathLen == 2

MaxCalls == 3

Segs == {"a", "b"}

Scalars == {1, 2}

---------------------------------------------------------------------------
(* Values *)

None == [k |-> "none"]

Sc(n) == [k |-> "s", v |-> n]

Map(m) == [k |-> "m", m |-> m]

EmptyMap == << >>

Put(f, key, v) == [y \in DOMAIN f \cup {key} |-> IF y = key THEN v ELSE f[y]]

IsNone(v) == v.k = "none"

IsMap(v) == v.k = "m"

(* The dotted strings and the tuples of strings a caller passes as a path. *)
PathStrs == UNION {[1..n -> Segs] : n \in 1..MaxPathLen}

RECURSIVE Flatten(_)
Flatten(t) == IF t = << >> THEN << >> ELSE Head(t) \o Flatten(Tail(t))

PathTuples == UNION {[1..n -> {<<s>> : s \in Segs}] : n \in 1..MaxPathLen}

StrArg(s) == [form |-> "str", s |-> s]

TupleArg(t) == [form |-> "tuple", t |-> t]

PathArgs == {StrArg(s) : s \in PathStrs} \cup {TupleArg(t) : t \in PathTuples}

NoArg == [form |-> "none"]

(* The trees a caller passes to set_defaults. *)
DefaultsTrees ==
  { EmptyMap,
    Put(Put(EmptyMap, "a", Map(Put(EmptyMap, "b", Sc(1)))), "b", Sc(2)) }

(* The defaults a caller passes to fetch. *)
FetchDefaults == {None, Sc(2)}

---------------------------------------------------------------------------
(* isinstance(object, tuple) -> ".".join(object), then Dotty._split: the   *)
(* segments of the joined string.  "".split(".") is [""].                  *)

(* join, but only the tuple's first element is kept. *)
JoinMissesTail(arg) ==
  IF arg.form = "tuple"
  THEN IF arg.t = << >> THEN <<"">> ELSE Head(arg.t)
  ELSE arg.s

join(arg) ==
  IF arg.form = "tuple"
  THEN IF arg.t = << >> THEN <<"">> ELSE Flatten(arg.t)
  ELSE arg.s

(* Dotty.__setitem__: set_to walks the segments, makes a dict where a      *)
(* segment is missing, and assigns at the last one.  Where a segment       *)
(* before the last holds a scalar the assignment into it raises TypeError  *)
(* before anything was changed.                                            *)
RECURSIVE set_to(_, _, _)
set_to(items, data, value) ==
  LET it == Head(items)
      rest == Tail(items)
  IN IF rest = << >>
     THEN [ok |-> TRUE, m |-> Put(data, it, value)]
     ELSE IF it \notin DOMAIN data
          THEN [ok |-> TRUE, m |-> Put(data, it, Map(set_to(rest, EmptyMap, value).m))]
          ELSE IF IsMap(data[it])
               THEN LET r == set_to(rest, data[it].m, value)
                    IN IF r.ok THEN [ok |-> TRUE, m |-> Put(data, it, Map(r.m))]
                       ELSE [ok |-> FALSE, m |-> data]
               ELSE [ok |-> FALSE, m |-> data]

(* Dotty.__getitem__: get_from walks the segments; a missing segment or a  *)
(* segment below a scalar is a KeyError.                                   *)
RECURSIVE get_from(_, _)
get_from(items, data) ==
  LET it == Head(items)
      rest == Tail(items)
  IN IF it \notin DOMAIN data
     THEN [found |-> FALSE, v |-> None]
     ELSE IF rest = << >>
          THEN [found |-> TRUE, v |-> data[it]]
          ELSE IF IsMap(data[it])
               THEN get_from(rest, data[it].m)
               ELSE [found |-> FALSE, v |-> None]

(* Dotty.get(key, default): the value, or default on KeyError. *)
DottyGet(data, items, default) ==
  LET r == get_from(items, data) IN IF r.found THEN r.v ELSE default

(* dict.get(object) on the defaults, a plain dict: the joined string is    *)
(* one key.  Defaults keys hold no '.', so only a one-segment path can be  *)
(* a key.                                                                  *)
DictGet(d, items) ==
  IF Len(items) = 1 /\ items[1] \in DOMAIN d THEN d[items[1]] ELSE None

(* json.dump of the tree, and json.load of the document: an object is the  *)
(* set of its members.                                                     *)
RECURSIVE Dump(_)
Dump(m) ==
  { <<key, IF IsMap(m[key])
           THEN [k |-> "object", members |-> Dump(m[key].m)]
           ELSE [k |-> "number", v |-> m[key].v]>> : key \in DOMAIN m }

RECURSIVE Parse(_)
Parse(doc) ==
  IF doc = {}
  THEN EmptyMap
  ELSE [key \in {p[1] : p \in doc} |->
          LET jv == (CHOOSE p \in doc : p[1] = key)[2]
          IN IF jv.k = "object" THEN Map(Parse(jv.members)) ELSE Sc(jv.v)]

Absent == [k |-> "absent"]

Invalid == [k |-> "invalid"]

Json(doc) == [k |-> "json", doc |-> doc]

---------------------------------------------------------------------------
(* The methods, as functions of the store's state.  Each gives the state   *)
(* it leaves, the exception it raises ("none" if none), the value it       *)
(* returns, and the number of saves and of dialogs it made.                *)

Outcome(o, d, sh, f, exc, ret, saves, dlg) ==
  [opt |-> o, defaults |-> d, shared |-> sh, file |-> f,
   exc |-> exc, ret |-> ret, saves |-> saves, dlg |-> dlg]

save(o, d, sh, f) ==
  Outcome(o, d, sh, Json(Dump(o)), "none", None, 1, 0)

(* try_defaults, but every defaults key is written, present or not. *)
try_defaults_overwriting(o, d, sh, f, raise_exception) ==
  IF Cardinality(DOMAIN d) < 1
  THEN IF raise_exception
       THEN Outcome(o, d, sh, f, "Exception", None, 0, 0)
       ELSE Outcome(o, d, sh, f, "none", Sc(0), 0, 0)
  ELSE LET missing == {key \in DOMAIN d : key \notin DOMAIN o}
           o2 == [key \in DOMAIN o \cup DOMAIN d |->
                    IF key \in DOMAIN d THEN d[key] ELSE o[key]]
           sh2 == sh \cup {key \in DOMAIN d : IsMap(d[key])}
           changed_count == Cardinality(missing)
       IN IF changed_count > 0
          THEN Outcome(o2, d, sh2, Json(Dump(o2)), "none", Sc(changed_count), 1, 0)
          ELSE Outcome(o2, d, sh2, f, "none", Sc(0), 0, 0)

(* try_defaults, but raise_exception is not looked at: empty defaults     *)
(* give 0.                                                                 *)
try_defaults_never_raising(o, d, sh, f, raise_exception) ==
  IF Cardinality(DOMAIN d) < 1
  THEN Outcome(o, d, sh, f, "none", Sc(0), 0, 0)
  ELSE LET missing == {key \in DOMAIN d : key \notin DOMAIN o}
           o2 == [key \in DOMAIN o \cup missing |->
                    IF key \in DOMAIN o THEN o[key] ELSE d[key]]
           sh2 == sh \cup {key \in missing : IsMap(d[key])}
           changed_count == Cardinality(missing)
       IN IF changed_count > 0
          THEN Outcome(o2, d, sh2, Json(Dump(o2)), "none", Sc(changed_count), 1, 0)
          ELSE Outcome(o, d, sh, f, "none", Sc(0), 0, 0)

try_defaults(o, d, sh, f, raise_exception) ==
  IF Cardinality(DOMAIN d) < 1
  THEN IF raise_exception
       THEN Outcome(o, d, sh, f, "Exception", None, 0, 0)
       ELSE Outcome(o, d, sh, f, "none", Sc(0), 0, 0)
  ELSE LET missing == {key \in DOMAIN d : key \notin DOMAIN o}
           o2 == [key \in DOMAIN o \cup missing |->
                    IF key \in DOMAIN o THEN o[key] ELSE d[key]]
           sh2 == sh \cup {key \in missing : IsMap(d[key])}
           changed_count == Cardinality(missing)
       IN IF changed_count > 0
          THEN Outcome(o2, d, sh2, Json(Dump(o2)), "none", Sc(changed_count), 1, 0)
          ELSE Outcome(o, d, sh, f, "none", Sc(0), 0, 0)

(* load, but the parsed document is merged into the tree in memory. *)
load_merging(o, d, sh, f, overwrite_regardless) ==
  IF f.k = "absent"
  THEN Outcome(o, d, sh, f, "FileNotFoundError", None, 0, 0)
  ELSE IF f.k = "json"
       THEN LET p == Parse(f.doc)
            IN Outcome([key \in DOMAIN o \cup DOMAIN p |->
                          IF key \in DOMAIN p THEN p[key] ELSE o[key]],
                       d, sh \ DOMAIN p, f, "none", None, 0, 0)
       ELSE IF overwrite_regardless
            THEN LET t == try_defaults(EmptyMap, d, {}, f, TRUE)
                 IN Outcome(t.opt, t.defaults, t.shared, t.file, t.exc, None, t.saves, 0)
            ELSE Outcome(o, d, sh, f, "none", None, 0, 1)

(* load, but an undecodable file is overwritten without asking. *)
load_overwriting(o, d, sh, f, overwrite_regardless) ==
  IF f.k = "absent"
  THEN Outcome(o, d, sh, f, "FileNotFoundError", None, 0, 0)
  ELSE IF f.k = "json"
       THEN Outcome(Parse(f.doc), d, {}, f, "none", None, 0, 0)
       ELSE IF overwrite_regardless
            THEN LET t == try_defaults(EmptyMap, d, {}, f, TRUE)
                 IN Outcome(t.opt, t.defaults, t.shared, t.file, t.exc, None, t.saves, 0)
            ELSE Outcome(o, d, sh, Json(Dump(o)), "none", None, 1, 1)

load(o, d, sh, f, overwrite_regardless) ==
  IF f.k = "absent"
  THEN Outcome(o, d, sh, f, "FileNotFoundError", None, 0, 0)
  ELSE IF f.k = "json"
       THEN Outcome(Parse(f.doc), d, {}, f, "none", None, 0, 0)
       ELSE IF overwrite_regardless
            THEN LET t == try_defaults(EmptyMap, d, {}, f, TRUE)
                 IN Outcome(t.opt, t.defaults, t.shared, t.file, t.exc, None, t.saves, 0)
            ELSE Outcome(o, d, sh, f, "none", None, 0, 1)

load_and_put_defaults(o, d, sh, f) ==
  LET l == load(o, d, sh, f, FALSE)
  IN IF l.exc = "FileNotFoundError"
     THEN save(o, d, sh, f)
     ELSE LET t == try_defaults(l.opt, l.defaults, l.shared, l.file, FALSE)
          IN Outcome(t.opt, t.defaults, t.shared, t.file, t.exc, None, t.saves, l.dlg)

push(o, d, sh, f, object, value) ==
  LET items == join(object)
      r == set_to(items, o, value)
  IN IF ~r.ok
     THEN Outcome(o, d, sh, f, "TypeError", None, 0, 0)
     ELSE IF Len(items) = 1
          THEN Outcome(r.m, d, sh \ {items[1]}, f, "none", None, 0, 0)
          ELSE IF items[1] \in sh
               THEN Outcome(r.m, Put(d, items[1], r.m[items[1]]), sh, f, "none", None, 0, 0)
               ELSE Outcome(r.m, d, sh, f, "none", None, 0, 0)

fetch(o, d, sh, f, object, default) ==
  LET items == join(object)
  IN IF IsNone(default)
     THEN Outcome(o, d, sh, f, "none", DottyGet(o, items, DictGet(d, items)), 0, 0)
     ELSE Outcome(o, d, sh, f, "none", DottyGet(o, items, default), 0, 0)

---------------------------------------------------------------------------
(* The state machine: one action per call on the store, and one for the    *)
(* dialog's callback.                                                      *)

Did(op, arg, val, flag, r) ==
  [op |-> op, arg |-> arg, val |-> val, flag |-> flag,
   exc |-> r.exc, ret |-> r.ret, saves |-> r.saves, dlg |-> r.dlg]

Leaves(r) ==
  /\ opt' = r.opt
  /\ defaults' = r.defaults
  /\ shared' = r.shared
  /\ file' = r.file
  /\ pending' = pending + r.dlg

(* Every step is one more call made on the store (or by the dialog).  A    *)
(* call that only reads (get_defaults, fetch) assigns nothing, so what     *)
(* follows it is what would follow without it: the model takes a read as   *)
(* the last call of a run.                                                 *)
Tick == calls < MaxCalls /\ calls' = calls + 1

Observe == calls < MaxCalls /\ calls' = MaxCalls

Init ==
  /\ opt = EmptyMap
  /\ defaults = EmptyMap
  /\ shared = {}
  /\ file \in {Absent, Invalid}
  /\ pending = 0
  /\ calls = 0
  /\ passed = EmptyMap
  /\ last = [op |-> "init", arg |-> NoArg, val |-> None, flag |-> FALSE,
             exc |-> "none", ret |-> None, saves |-> 0, dlg |-> 0]

SetDefaults ==
  /\ Tick
  /\ \E t \in DefaultsTrees :
    /\ defaults' = t
    /\ passed' = t
    /\ shared' = {}
    /\ last' = [op |-> "set_defaults", arg |-> NoArg, val |-> Map(t), flag |-> FALSE,
                exc |-> "none", ret |-> None, saves |-> 0, dlg |-> 0]
    /\ UNCHANGED <<opt, file, pending>>

GetDefaults ==
  /\ Observe
  /\ last' = [op |-> "get_defaults", arg |-> NoArg, val |-> None, flag |-> FALSE,
              exc |-> "none", ret |-> Map(defaults), saves |-> 0, dlg |-> 0]
  /\ UNCHANGED <<opt, defaults, shared, file, pending, passed>>

Push ==
  /\ Tick
  /\ \E object \in PathArgs, n \in Scalars :
    LET r == push(opt, defaults, shared, file, object, Sc(n))
    IN /\ Leaves(r)
       /\ last' = Did("push", object, Sc(n), FALSE, r)
       /\ UNCHANGED passed

Fetch ==
  /\ Observe
  /\ \E object \in PathArgs, default \in FetchDefaults :
    LET r == fetch(opt, defaults, shared, file, object, default)
    IN /\ Leaves(r)
       /\ last' = Did("fetch", object, default, FALSE, r)
       /\ UNCHANGED passed

Load ==
  /\ Tick
  /\ \E overwrite_regardless \in BOOLEAN :
    LET r == load(opt, defaults, shared, file, overwrite_regardless)
    IN /\ Leaves(r)
       /\ last' = Did("load", NoArg, None, overwrite_regardless, r)
       /\ UNCHANGED passed

LoadAndPutDefaults ==
  LET r == load_and_put_defaults(opt, defaults, shared, file)
  IN /\ Tick
     /\ Leaves(r)
     /\ last' = Did("load_and_put_defaults", NoArg, None, FALSE, r)
     /\ UNCHANGED passed

TryDefaults ==
  /\ Tick
  /\ \E raise_exception \in BOOLEAN :
    LET r == try_defaults(opt, defaults, shared, file, raise_exception)
    IN /\ Leaves(r)
       /\ last' = Did("try_defaults", NoArg, None, raise_exception, r)
       /\ UNCHANGED passed

Save ==
  LET r == save(opt, defaults, shared, file)
  IN /\ Tick
     /\ Leaves(r)
     /\ last' = Did("save", NoArg, None, FALSE, r)
     /\ UNCHANGED passed

(* The dialog calls back: lambda x: self.save() if x else None. *)
Callback ==
  /\ Tick
  /\ pending > 0
  /\ pending' = pending - 1
  /\ UNCHANGED passed
  /\ \E x \in BOOLEAN :
       LET r == IF x THEN save(opt, defaults, shared, file)
                ELSE Outcome(opt, defaults, shared, file, "none", None, 0, 0)
       IN /\ opt' = r.opt
          /\ defaults' = r.defaults
          /\ shared' = r.shared
          /\ file' = r.file
          /\ last' = Did("callback", NoArg, None, x, r)

Next ==
  \/ SetDefaults
  \/ GetDefaults
  \/ Push
  \/ Fetch
  \/ Load
  \/ LoadAndPutDefaults
  \/ TryDefaults
  \/ Save
  \/ Callback

Spec == Init /\ [][Next]_vars

---------------------------------------------------------------------------
(* The properties.  A path is named here by its segments, whatever the     *)
(* form it was passed in; ValueAt is the value a tree holds at a path.     *)

Segments(arg) == IF arg.form = "tuple" THEN Flatten(arg.t) ELSE arg.s

(* The arguments, of either form, that name the path of segments p. *)
ArgsNaming == [p \in PathStrs |-> {a \in PathArgs : Segments(a) = p}]

RECURSIVE Present(_, _)
Present(tree, items) ==
  /\ Head(items) \in DOMAIN tree
  /\ \/ Tail(items) = << >>
     \/ /\ IsMap(tree[Head(items)])
        /\ Present(tree[Head(items)].m, Tail(items))

RECURSIVE ValueAt(_, _)
ValueAt(tree, items) ==
  IF Head(items) \notin DOMAIN tree THEN None
  ELSE IF Tail(items) = << >> THEN tree[Head(items)]
  ELSE IF IsMap(tree[Head(items)]) THEN ValueAt(tree[Head(items)].m, Tail(items))
  ELSE None

Written == DOMAIN opt' \ DOMAIN opt

C2_TryDefaultsFillsOnlyAbsent ==
  [][(last'.op = "try_defaults" /\ DOMAIN defaults # {}) =>
       /\ \A key \in DOMAIN opt : key \in DOMAIN opt' /\ opt'[key] = opt[key]
       /\ Written = DOMAIN defaults \ DOMAIN opt
       /\ \A key \in Written : opt'[key] = defaults[key]
       /\ last'.ret = Sc(Cardinality(Written))
       /\ last'.saves = (IF Cardinality(Written) > 0 THEN 1 ELSE 0)
       /\ IF Cardinality(Written) > 0
          THEN file' = Json(Dump(opt'))
          ELSE file' = file]_vars

C2_Witness ==
  /\ last.op = "try_defaults"
  /\ last.ret = Sc(1)
  /\ last.saves = 1
  /\ DOMAIN defaults = {"a", "b"}
  /\ opt["b"] # defaults["b"]
  /\ opt["a"] = defaults["a"]

(* C3: a fetch of a path the options tree holds no value at returns, with  *)
(* no default given, the value the defaults tree holds at that path (a     *)
(* nested path included) or None if it holds none, and with a default      *)
(* given, that default.                                                    *)
C3_FetchFallsBackToDefaultsTree ==
  (last.op = "fetch" /\ ~Present(opt, Segments(last.arg))) =>
     last.ret = (IF IsNone(last.val)
                 THEN ValueAt(defaults, Segments(last.arg))
                 ELSE last.val)

(* C4: a load that directly follows a save leaves the options tree as it   *)
(* was, and a load of a decodable file leaves exactly the file's content   *)
(* as the options tree: no key of the tree in memory that the file lacks   *)
(* is kept.                                                                *)
C4_SaveLoadRoundTrip ==
  [][(last'.op = "load" /\ file.k = "json") =>
       /\ last'.exc = "none"
       /\ Dump(opt') = file.doc
       /\ \A key \in DOMAIN opt :
            key \notin {p[1] : p \in file.doc} => key \notin DOMAIN opt'
       /\ last.op = "save" => opt' = opt]_vars

C4_Witness ==
  /\ last.op = "load"
  /\ last.exc = "none"
  /\ file.k = "json"
  /\ Dump(opt) = file.doc
  /\ \E key \in DOMAIN opt : IsMap(opt[key])

(* C5: with no file at the location, load raises FileNotFoundError, and    *)
(* load_and_put_defaults raises nothing and leaves a file holding the      *)
(* defaults tree (an empty object if the defaults are empty).              *)
C5_FirstRunWritesDefaults ==
  [][file.k = "absent" =>
       /\ last'.op = "load" => last'.exc = "FileNotFoundError"
       /\ last'.op = "load_and_put_defaults" =>
            (last'.exc = "none" /\ file' = Json(Dump(defaults)))]_vars

(* C6: a load of an undecodable file raises nothing, whatever the flag and *)
(* the defaults; with the flag set it leaves as the options tree the       *)
(* top-level entries of the defaults.                                      *)
C6_LoadNeverRaisesOnBadJson ==
  [][(file.k = "invalid" /\ last'.op = "load") =>
       /\ last'.exc = "none"
       /\ last'.flag => opt' = defaults]_vars

(* C7: the defaults tree is, at every level, the tree last passed to       *)
(* set_defaults, whatever was called since.                                *)
C7_DefaultsNeverMutated ==
  /\ defaults = passed
  /\ last.op = "get_defaults" => last.ret = Map(passed)

(* C8: try_defaults with empty defaults changes neither the options tree   *)
(* nor the file and saves nothing; it returns 0 if raise_exception is      *)
(* false and raises if it is true.  With defaults of at least one entry it *)
(* does not raise.                                                         *)
C8_EmptyDefaults ==
  [][last'.op = "try_defaults" =>
       IF DOMAIN defaults = {}
       THEN /\ opt' = opt
            /\ file' = file
            /\ last'.saves = 0
            /\ last'.flag => last'.exc = "Exception"
            /\ ~last'.flag => (last'.exc = "none" /\ last'.ret = Sc(0))
       ELSE last'.exc = "none"]_vars

C8_Witness ==
  /\ last.op = "try_defaults"
  /\ DOMAIN defaults = {}
  /\ last.flag
  /\ last.exc = "Exception"
  /\ opt # EmptyMap
  /\ file.k = "json"

(* C9: no push and no fetch raises, whatever the tree and the path.        *)
C9_PushAndFetchAreTotal ==
  last.op \in {"push", "fetch"} => last.exc = "none"

(* C10: a load of an undecodable file without the flag opens the dialog    *)
(* once and changes neither the file nor the options tree; the callback    *)
(* called with true saves the options tree as it then is, and called with  *)
(* false changes nothing.                                                  *)
C10_OverwriteOnlyOnConfirmation ==
  [][/\ (file.k = "invalid" /\ last'.op = "load" /\ ~last'.flag) =>
          /\ last'.exc = "none"
          /\ last'.dlg = 1
          /\ pending' = pending + 1
          /\ last'.saves = 0
          /\ file' = file
          /\ opt' = opt
     /\ last'.op = "callback" =>
          /\ pending > 0
          /\ opt' = opt
          /\ IF last'.flag THEN file' = Json(Dump(opt)) ELSE file' = file]_vars

C10_Witness ==
  /\ last.op = "callback"
  /\ last.flag
  /\ opt # EmptyMap
  /\ file = Json(Dump(opt))

====
